---- MODULE Spec2Model ----
(***************************************************************************)
(* Constrained path search of algorithmic_lattice_surgery:                 *)
(*   scripts/pathfinder.py  run_bfs_for_all_potential_target_nodes,        *)
(*                          bfs_extended_3d and the auxiliary generators   *)
(*   utils/constraints.py   check_face_match, check_cube_match,            *)
(*                          get_valid_next_kinds                           *)
(*                                                                         *)
(* Representation.  A coordinate is a triple <<x, y, z>> of integers.  A   *)
(* kind (a Python str such as "xxz" or "oxzh") is the sequence of its      *)
(* characters, <<"x","x","z">>, so that slicing, indexing and the test     *)
(* '"o" in kind' are computed as the code computes them.  A block is the   *)
(* pair <<coordinate, kind>>.  An Optional value is None == <<>> or        *)
(* Some(v) == <<v>>.  A list of obstacle coordinates is used by the code   *)
(* through 'in', 'remove' (first occurrence), copy and min/max only, none  *)
(* of which depends on the order of the list, so it is a bag (multiset)    *)
(* of coordinates: duplicates are kept.                                    *)
(***************************************************************************)
EXTENDS Integers, Sequences, FiniteSets, Bags, TLC

(***************************************************************************)
(* Bounds of the model.                                                    *)
(***************************************************************************)
\* extra (duplicate) copies of a coordinate an obstacle list may hold
MaxExtra == 1
\* largest attempts_per_distance handed to the driver
MaxAttempts == 2
\* longest path (in moves) enumerated by the exhaustive reference search
MaxRefLen == 2

\* longest structure given to get_coords_occupied_by_blocks
MaxStructLen == 2

(***************************************************************************)
(* Generic helpers.                                                        *)
(***************************************************************************)
None == <<>>

Some(v) == <<v>>

Abs(n) == IF n < 0 THEN -n ELSE n

SeqToSet(s) == {s[i] : i \in 1..Len(s)}

\* s[:n] of a Python str
Prefix(s, n) == IF Len(s) <= n THEN s ELSE SubSeq(s, 1, n)

\* 'ch in s' for a one-character ch
Contains(s, ch) == \E i \in 1..Len(s) : s[i] = ch

\* 'c in lst' for a list of coordinates
InList(c, lst) == BagIn(c, lst)

\* 'lst.remove(c)': drops ONE occurrence of c (the first one)
ListRemove(lst, c) == lst (-) SetToBag({c})

\* 'if c in lst: lst.remove(c)'
RemoveIfPresent(lst, c) == IF InList(c, lst) THEN ListRemove(lst, c) ELSE lst

Manhattan(a, b) == Abs(a[1] - b[1]) + Abs(a[2] - b[2]) + Abs(a[3] - b[3])

(***************************************************************************)
(* Kind families.                                                          *)
(***************************************************************************)
K(a, b, c) == <<a, b, c>>

KH(a, b, c) == <<a, b, c, "h">>

all_cube_kinds ==
    << K("x","x","z"), K("x","z","z"), K("x","z","x"),
       K("z","z","x"), K("z","x","x"), K("z","x","z") >>

all_pipe_kinds ==
    << K("z","x","o"), K("x","z","o"), K("o","x","z"),
       K("o","z","x"), K("x","o","z"), K("z","o","x"),
       KH("z","x","o"), KH("x","z","o"), KH("o","x","z"),
       KH("o","z","x"), KH("x","o","z"), KH("z","o","x") >>

OOO == K("o","o","o")

(***************************************************************************)
(* utils/constraints.py: the type-compatibility oracle.                    *)
(***************************************************************************)
\* str.lower() on one character
LowerChar(ch) ==
    CASE ch = "X" -> "x"
      [] ch = "Z" -> "z"
      [] ch = "O" -> "o"
      [] ch = "H" -> "h"
      [] OTHER    -> ch

\* kind.lower()
Lower(kind) == [i \in 1..Len(kind) |-> LowerChar(kind[i])]

\* [axis != 0 for axis in displacements].index(True): first displaced axis
DisplacementAxis(source_coord, target_coord) ==
    CHOOSE i \in 1..3 :
        /\ target_coord[i] - source_coord[i] # 0
        /\ \A j \in 1..(i - 1) : target_coord[j] - source_coord[j] = 0

\* kind[:idx] + kind[idx+1:] (idx counted from 1 here)
DropAxis(kind, idx) == [i \in 1..(Len(kind) - 1) |-> IF i < idx THEN kind[i] ELSE kind[i + 1]]

\* face match that cuts only the source kind down to its three colours
check_face_match_source_cut(source_coord, source_kind, target_coord, target_kind) ==
    LET sk  == Prefix(Lower(source_kind), 3)
        tk  == Lower(target_kind)
        idx == DisplacementAxis(source_coord, target_coord)
    IN  DropAxis(sk, idx) = DropAxis(tk, idx)

\* lines 3-38
check_face_match(source_coord, source_kind, target_coord, target_kind) ==
    LET sk  == Prefix(Lower(source_kind), 3)
        tk  == Prefix(Lower(target_kind), 3)
        idx == DisplacementAxis(source_coord, target_coord)
    IN  DropAxis(sk, idx) = DropAxis(tk, idx)

\* check_is_exit of utils/utils.py, after the exit match of the design
\* document: a block is open toward a neighbour when its symbol on the axis
\* of displacement is its exit marker, the open marker "o" of a pipe or the
\* colour a cube carries twice.
check_is_exit(source_coord, source_kind, target_coord) ==
    LET k      == Prefix(Lower(source_kind), 3)
        idx    == DisplacementAxis(source_coord, target_coord)
        marker == IF Contains(k, "o") THEN "o"
                  ELSE IF Cardinality({i \in 1..3 : k[i] = "x"}) >= 2 THEN "x" ELSE "z"
    IN  k[idx] = marker

check_cube_match(current_pos, current_kind, next_pos, next_kind) ==
    /\ check_is_exit(current_pos, Lower(current_kind), next_pos)
    /\ check_is_exit(next_pos, Lower(next_kind), current_pos)

get_valid_next_kinds(current_pos, current_kind, next_pos) ==
    LET family == IF Contains(current_kind, "o") THEN all_cube_kinds ELSE all_pipe_kinds
        CubeOk(next_kind) == check_cube_match(current_pos, current_kind, next_pos, next_kind)
        possible_kinds == SelectSeq(family, CubeOk)
        FaceOk(next_kind) == check_face_match(current_pos, current_kind, next_pos, next_kind)
    IN  SelectSeq(possible_kinds, FaceOk)

\* the parameters 'def get_valid_next_kinds(current_pos, current_kind, next_pos)' declares
get_valid_next_kinds_params == {"current_pos", "current_kind", "next_pos"}

\* Python's call binding: a keyword argument that names no parameter of the
\* callee raises TypeError before the callee's body runs
CallRaisesTypeError(params, keywords) == ~(keywords \subseteq params)

(***************************************************************************)
(* scripts/pathfinder.py: bfs_extended_3d.                                 *)
(***************************************************************************)
spatial_moves ==
    << <<1, 0, 0>>, <<-1, 0, 0>>, <<0, 1, 0>>, <<0, -1, 0>>, <<0, 0, 1>>, <<0, 0, -1>> >>

\* (x + dx * scale, y + dy * scale, z + dz * scale)
Step(c, d, scale) == << c[1] + d[1] * scale, c[2] + d[2] * scale, c[3] + d[3] * scale >>

\* 2 if "o" in current_type else 1
ScaleOf(current_type) == IF Contains(current_type, "o") THEN 2 ELSE 1

\* [node[0] for node in path[current_node_info]]
PathCoords(p) == {p[i][1] : i \in 1..Len(p)}

\* lines 220-230: a pipe's intermediate cell is on the current path or forbidden
intermediate_blocked(current_node_info, d, current_path, forbidden_cords) ==
    LET current_coords == current_node_info[1]
        current_type   == current_node_info[2]
        intermediate_pos == Step(current_coords, d, 1)
    IN  /\ Contains(current_type, "o")
        /\ ScaleOf(current_type) = 2
        /\ \/ intermediate_pos \in PathCoords(current_path)
           \/ InList(intermediate_pos, forbidden_cords)

\* lines 252-254: get_valid_next_kinds(current_coords, current_type, next_coords,
\* hadamard_flag=hadamard_flag): the keyword names no parameter of the oracle
oracle_call_raises == CallRaisesTypeError(get_valid_next_kinds_params, {"hadamard_flag"})

\* circuit breaker that already trips at six times the initial distance
circuit_breaker_at_bound(current_coords, end_coords, initial_manhattan_distance) ==
    Manhattan(current_coords, end_coords) >= 6 * initial_manhattan_distance

\* lines 190: global circuit breaker
circuit_breaker(current_coords, end_coords, initial_manhattan_distance) ==
    Manhattan(current_coords, end_coords) > 6 * initial_manhattan_distance

\* goal test that forgets the kind of the target
goal_test_coords_only(current_coords, current_type, end_coords, end_type) ==
    current_coords = end_coords

\* goal test written without the parentheses around the test of the kind
goal_test_no_parens(current_coords, current_type, end_coords, end_type) ==
    \/ (current_coords = end_coords /\ end_type = OOO)
    \/ current_type = end_type

\* lines 194-196
goal_test(current_coords, current_type, end_coords, end_type) ==
    /\ current_coords = end_coords
    /\ (end_type = OOO \/ current_type = end_type)

BfsRaised(forbidden)  == [raised |-> TRUE, found |-> FALSE, length |-> -1, path |-> None,
                          forbidden |-> forbidden]

BfsFailure(forbidden) == [raised |-> FALSE, found |-> FALSE, length |-> -1, path |-> None,
                          forbidden |-> forbidden]

BfsSuccess(len, p, forbidden) ==
    [raised |-> FALSE, found |-> TRUE, length |-> len, path |-> Some(p), forbidden |-> forbidden]

\* lines 215-289, the loop over the six directions for one dequeued state.
\* A direction whose intermediate cell is blocked is skipped ('continue');
\* the first direction that is not skipped reaches the oracle call, which
\* raises, so the statements after the call (lines 256-289) never run and
\* the Hadamard rewriting before it (lines 232-250) only changes locals the
\* exception discards.  TRUE: the loop ran to its end; FALSE: it raised.
RECURSIVE for_spatial_moves(_, _, _, _)
for_spatial_moves(i, current_node_info, current_path, forbidden_cords) ==
    IF i > Len(spatial_moves) THEN TRUE
    ELSE IF intermediate_blocked(current_node_info, spatial_moves[i], current_path, forbidden_cords)
         THEN for_spatial_moves(i + 1, current_node_info, current_path, forbidden_cords)
         ELSE ~oracle_call_raises

\* lines 184-291, 'while queue:'
RECURSIVE bfs_while(_, _, _, _, _, _)
bfs_while(queue, path_length, path, target_node, initial_manhattan_distance, forbidden_cords) ==
    IF queue = <<>> THEN BfsFailure(forbidden_cords)
    ELSE LET current_node_info == Head(queue)
             current_coords == current_node_info[1]
             current_type   == current_node_info[2]
         IN  IF circuit_breaker(current_coords, target_node[1], initial_manhattan_distance)
             THEN BfsFailure(forbidden_cords)
             ELSE IF goal_test(current_coords, current_type, target_node[1], target_node[2])
             THEN BfsSuccess(path_length[current_node_info], path[current_node_info],
                             forbidden_cords)
             ELSE IF for_spatial_moves(1, current_node_info, path[current_node_info],
                                       forbidden_cords)
             THEN bfs_while(Tail(queue), path_length, path, target_node,
                            initial_manhattan_distance, forbidden_cords)
             ELSE BfsRaised(forbidden_cords)

\* lines 168-171: the endpoints are removed from the caller's list, one
\* occurrence each
remove_endpoints(start_coords, end_coords, forbidden_cords) ==
    RemoveIfPresent(RemoveIfPresent(forbidden_cords, start_coords), end_coords)

bfs_extended_3d(source_node, target_node, forbidden_cords, hadamard_flag) ==
    LET start_coords == source_node[1]
        end_coords   == target_node[1]
        forbidden    == remove_endpoints(start_coords, end_coords, forbidden_cords)
        queue        == << source_node >>
        path_length  == (source_node :> 0)
        path         == (source_node :> << source_node >>)
        initial_manhattan_distance == Manhattan(start_coords, end_coords)
    IN  bfs_while(queue, path_length, path, target_node, initial_manhattan_distance, forbidden)

(***************************************************************************)
(* scripts/pathfinder.py: auxiliary generators of the driver.              *)
(***************************************************************************)
SetMin(S) == CHOOSE m \in S : \A n \in S : m <= n

SetMax(S) == CHOOSE m \in S : \A n \in S : m >= n

\* margin: int = 5
margin == 5

\* the six bounds min_x, max_x, min_y, max_y, min_z, max_z
determine_grid_size(start_coords, end_coords, obstacle_coords) ==
    LET all_coords == {start_coords, end_coords} \cup BagToSet(obstacle_coords)
        lo(i) == SetMin({c[i] : c \in all_coords}) - margin
        hi(i) == SetMax({c[i] : c \in all_coords}) + margin
    IN  << lo(1), hi(1), lo(2), hi(2), lo(3), hi(3) >>

InBounds(t, bb) ==
    /\ bb[1] <= t[1] /\ t[1] <= bb[2]
    /\ bb[3] <= t[2] /\ t[2] <= bb[4]
    /\ bb[5] <= t[3] /\ t[3] <= bb[6]

\* Level 1: single axis displacement (+/- 3), in the order of the list
potential_targets_level_1(s) ==
    << <<s[1] + 3, s[2], s[3]>>, <<s[1] - 3, s[2], s[3]>>,
       <<s[1], s[2] + 3, s[3]>>, <<s[1], s[2] - 3, s[3]>>,
       <<s[1], s[2], s[3] + 3>>, <<s[1], s[2], s[3] - 3>> >>

\* Level 2: two axis displacement, as the set the code builds
potential_targets_level_2(s) ==
    UNION { { <<s[1] + a, s[2] + b, s[3]>>, <<s[1] + a, s[2], s[3] + b>>,
              <<s[1], s[2] + a, s[3] + b>> } : a \in {-3, 3}, b \in {-3, 3} }

\* one listing of the twelve offsets of level 2
level_2_offsets ==
    << <<-3, -3, 0>>, <<-3, 3, 0>>, <<3, -3, 0>>, <<3, 3, 0>>,
       <<-3, 0, -3>>, <<-3, 0, 3>>, <<3, 0, -3>>, <<3, 0, 3>>,
       <<0, -3, -3>>, <<0, -3, 3>>, <<0, 3, -3>>, <<0, 3, 3>> >>

Reverse(q) == [i \in 1..Len(q) |-> q[Len(q) + 1 - i]]

\* list(set(...)) leaves the order of level 2 to the implementation: it is
\* one fixed order, here one of these
Level2Orders == {level_2_offsets, Reverse(level_2_offsets)}

\* list(set(potential_targets_level_2)) under the order 'order'
level_2_list(s, order) == [i \in 1..Len(order) |-> Step(s, order[i], 1)]

\* Level 3: three axis displacement, dx outermost, -3 before 3
potential_targets_level_3(s) ==
    LET v(n) == IF n = 0 THEN -3 ELSE 3
    IN  [i \in 1..8 |-> << s[1] + v(((i - 1) \div 4) % 2),
                           s[2] + v(((i - 1) \div 2) % 2),
                           s[3] + v((i - 1) % 2) >>]

\* is_move_allowed of utils/utils_greedy_bfs.py is a geometric filter the
\* design document does not detail: a fixed predicate on the candidate
\* positions, given by the set 'allowed' of the positions it accepts
is_move_allowed(source_coords, target_coords, allowed) == target_coords \in allowed

\* the value generate_tentative_target_position returns, None or Some(coordinate),
\* as a one-element set
generate_tentative_target_position(source_node, bb, obstacle_coords, overwrite_target_coords, allowed, order) ==
    LET s == source_node[1]
        ok(t)  == InBounds(t, bb) /\ ~InList(t, obstacle_coords) /\ is_move_allowed(s, t, allowed)
        l1     == SelectSeq(potential_targets_level_1(s), ok)
        l2     == SelectSeq(level_2_list(s, order), ok)
        l3     == SelectSeq(potential_targets_level_3(s), ok)
    IN  IF overwrite_target_coords # None THEN {overwrite_target_coords}
        ELSE IF l1 # <<>> THEN {Some(Head(l1))}
        ELSE IF l2 # <<>> THEN {Some(Head(l2))}
        ELSE IF l3 # <<>> THEN {Some(Head(l3))}
        ELSE {None}

\* a ZX type or an overriding kind given as text, as the sequence of its characters
Chars(str) ==
    CASE str = "X" -> <<"X">>
      [] str = "Z" -> <<"Z">>
      [] str = "O" -> <<"O">>
      [] str = "Y" -> <<"Y">>
      [] str = "SIMPLE" -> <<"S","I","M","P","L","E">>
      [] str = "HADAMARD" -> <<"H","A","D","A","M","A","R","D">>

generate_tentative_target_types(target_node_zx_type, overwrite_target_type) ==
    IF overwrite_target_type # None THEN << overwrite_target_type[1] >>
    ELSE IF target_node_zx_type = "X"
         THEN << K("x","x","z"), K("x","z","x"), K("z","x","x") >>
    ELSE IF target_node_zx_type = "Z"
         THEN << K("x","z","z"), K("z","z","x"), K("z","x","z") >>
    ELSE IF target_node_zx_type = "O" THEN << OOO >>
    ELSE IF target_node_zx_type = "SIMPLE" THEN SubSeq(all_pipe_kinds, 1, 6)
    ELSE IF target_node_zx_type = "HADAMARD" THEN SubSeq(all_pipe_kinds, 7, 12)
    ELSE << Chars(target_node_zx_type) >>

\* bookkeeping that does not record the path of a successful search
aggregate_no_record(agg, candidate) ==
    IF candidate.found
    THEN LET better == agg.min_path_length = None
                       \/ candidate.length < agg.min_path_length[1]
         IN  [ path_found |-> TRUE,
               all_paths_from_round |-> agg.all_paths_from_round,
               min_path_length |-> IF better THEN Some(candidate.length)
                                   ELSE agg.min_path_length,
               length |-> IF better THEN Some(candidate.length) ELSE agg.length,
               path   |-> IF better THEN candidate.path ELSE agg.path ]
    ELSE agg

\* bookkeeping whose 'keep the shortest' test runs for failed searches too
aggregate_unguarded(agg, candidate) ==
    LET better == agg.min_path_length = None
                  \/ candidate.length < agg.min_path_length[1]
    IN  [ path_found |-> agg.path_found \/ candidate.found,
          all_paths_from_round |-> IF candidate.found
                                   THEN Append(agg.all_paths_from_round, candidate.path[1])
                                   ELSE agg.all_paths_from_round,
          min_path_length |-> IF better THEN Some(candidate.length) ELSE agg.min_path_length,
          length |-> IF better THEN Some(candidate.length) ELSE agg.length,
          path   |-> IF better THEN candidate.path ELSE agg.path ]

\* lines 121-127: the driver's bookkeeping after one search; agg is the record
\* of path_found, min_path_length, length, path, all_paths_from_round
aggregate(agg, candidate) ==
    IF candidate.found
    THEN LET better == agg.min_path_length = None
                       \/ candidate.length < agg.min_path_length[1]
         IN  [ path_found |-> TRUE,
               all_paths_from_round |-> Append(agg.all_paths_from_round, candidate.path[1]),
               min_path_length |-> IF better THEN Some(candidate.length)
                                   ELSE agg.min_path_length,
               length |-> IF better THEN Some(candidate.length) ELSE agg.length,
               path   |-> IF better THEN candidate.path ELSE agg.path ]
    ELSE agg

\* break test that forgets the success of the previous round
loop_break_distance_only(dist, max_dist, found) == dist > max_dist

\* line 80: 'if distance > max_distance or path_found: break'
loop_break(dist, max_dist, found) == dist > max_dist \/ found

(***************************************************************************)
(* get_coords_occupied_by_blocks (pathfinder.py lines 471-529).            *)
(***************************************************************************)
\* the extra cell taken on the side of the previous block
extended_coords_toward_prev(cur, prev) ==
    IF cur[1] = prev[1] + 1 THEN Some(<< cur[1] - 1, cur[2], cur[3] >>)
    ELSE IF cur[1] = prev[1] - 1 THEN Some(<< cur[1] + 1, cur[2], cur[3] >>)
    ELSE IF cur[2] = prev[2] + 1 THEN Some(<< cur[1], cur[2] - 1, cur[3] >>)
    ELSE IF cur[2] = prev[2] - 1 THEN Some(<< cur[1], cur[2] + 1, cur[3] >>)
    ELSE IF cur[3] = prev[3] + 1 THEN Some(<< cur[1], cur[2], cur[3] - 1 >>)
    ELSE IF cur[3] = prev[3] - 1 THEN Some(<< cur[1], cur[2], cur[3] + 1 >>)
    ELSE None

\* lines 509-524: the if/elif chain over the offset from the previous block
extended_coords(cur, prev) ==
    IF cur[1] = prev[1] + 1 THEN Some(<< cur[1] + 1, cur[2], cur[3] >>)
    ELSE IF cur[1] = prev[1] - 1 THEN Some(<< cur[1] - 1, cur[2], cur[3] >>)
    ELSE IF cur[2] = prev[2] + 1 THEN Some(<< cur[1], cur[2] + 1, cur[3] >>)
    ELSE IF cur[2] = prev[2] - 1 THEN Some(<< cur[1], cur[2] - 1, cur[3] >>)
    ELSE IF cur[3] = prev[3] + 1 THEN Some(<< cur[1], cur[2], cur[3] + 1 >>)
    ELSE IF cur[3] = prev[3] - 1 THEN Some(<< cur[1], cur[2], cur[3] - 1 >>)
    ELSE None

\* lines 482-529; the returned list(set) is modelled by the set it lists
get_coords_occupied_by_blocks(structure) ==
    IF structure = <<>> THEN {}
    ELSE LET later == 2..Len(structure)
             pipes == { i \in later : Contains(structure[i][2], "o") }
             ext(i) == extended_coords(structure[i][1], structure[i - 1][1])
         IN  {structure[1][1]}
               \cup { structure[i][1] : i \in later }
               \cup { ext(i)[1] : i \in { j \in pipes : ext(j) # None } }

\* the driver working on the caller's list itself, without the slice
written_through_alias(caller_list, written_list) == written_list

\* line 65: 'obstacle_coords = occupied_coords[:]' is a new list object, so
\* what the driver and its searches write to obstacle_coords (lines 68,
\* 168-171) does not reach the list the caller passed
written_through(caller_list, written_list) == caller_list

(***************************************************************************)
(* State.                                                                  *)
(***************************************************************************)
VARIABLES
    entry,                     \* which function is called: "driver", "bfs",
                               \* "coords" or "face"
    pc,                        \* position of the call
    \* arguments
    source_node, target_node_zx_type, distance, max_distance, attempts_per_distance,
    overwrite_target_node, occupied_coords, hadamard_flag,
    target_node,               \* bfs_extended_3d called directly: its target block
    move_allowed,              \* the coordinates is_move_allowed accepts from the source
    level_2_order,             \* the order list(set(...)) gives the level 2 candidates
    preexistent_structure,     \* get_coords_occupied_by_blocks: its list of blocks
    face_args,                 \* check_face_match: coordinate, kind, coordinate, kind
    \* locals of run_bfs_for_all_potential_target_nodes
    attempt, agg, obstacle_coords, bounding_box, tentative_target_position,
    potential_target_types,
    \* results
    bfs_result,                \* what the direct call of bfs_extended_3d produced
    driver_result,             \* what the driver returned
    caller_list,               \* the list object the caller passed as occupied_coords
                               \* (forbidden_cords for the direct call), as it is now
    coords_result,             \* what get_coords_occupied_by_blocks returned
    face_result,               \* check_face_match of face_args, and of them swapped
    \* history: one record per executed round of the driver's loop
    round_log

inputs == << entry, source_node, target_node_zx_type, distance, max_distance,
             attempts_per_distance, overwrite_target_node, occupied_coords, hadamard_flag,
             target_node, move_allowed, level_2_order, preexistent_structure, face_args >>

utility_results == << coords_result, face_result >>

locals == << attempt, agg, obstacle_coords, bounding_box, tentative_target_position,
             potential_target_types >>

vars == << inputs, pc, locals, bfs_result, driver_result, utility_results, caller_list,
          round_log >>

(***************************************************************************)
(* Input sets.                                                             *)
(***************************************************************************)
Origin == <<0, 0, 0>>

\* the six cells next to the source
Shell == {Step(Origin, spatial_moves[i], 1) : i \in 1..Len(spatial_moves)}

SourceNodes == { <<Origin, k>> : k \in {K("x","x","z"), K("o","x","z"), KH("o","x","z")} }

TargetCoords == {Origin, <<1, 0, 0>>, <<3, 0, 0>>}

TargetKinds == {OOO, K("x","x","z"), K("z","x","z"), K("o","x","z")}

\* bags of at most n coordinates drawn from the cells S
RECURSIVE BagsUpTo(_, _)
BagsUpTo(S, n) ==
    IF n = 0 THEN {EmptyBag}
    ELSE BagsUpTo(S, n - 1) \cup {b (+) SetToBag({c}) : b \in BagsUpTo(S, n - 1), c \in S}

\* cells an obstacle list may hold more than once
DupCells == {Origin, <<1, 0, 0>>}

\* obstacle lists: every coordinate of a support once, plus up to MaxExtra
\* further copies of the cells at and next to the source
ObstacleLists(Supports) ==
    {SetToBag(S) (+) extra : S \in Supports, extra \in BagsUpTo(DupCells, MaxExtra)}

BfsSupports == SUBSET (Shell \cup {Origin})

DriverSupports ==
    { {}, Shell, Shell \cup {Origin}, {<<3, 0, 0>>},
      SeqToSet(potential_targets_level_1(Origin)) }

Candidates(s) ==
    SeqToSet(potential_targets_level_1(s)) \cup potential_targets_level_2(s)
        \cup SeqToSet(potential_targets_level_3(s))

\* the predicates is_move_allowed may be
MoveAllowedFamily ==
    { Candidates(Origin), {},
      Candidates(Origin) \ SeqToSet(potential_targets_level_1(Origin)),
      SeqToSet(potential_targets_level_3(Origin)) }

OverwriteTargets ==
    { <<None, None>>, <<None, Some(OOO)>> }
      \cup { <<Some(c), None>> : c \in TargetCoords }
      \cup { <<Some(c), Some(k)>> : c \in TargetCoords, k \in {OOO, K("o","x","z")} }

ZXTypes == {"X", "Z", "O", "SIMPLE", "HADAMARD", "Y"}

NoAgg == [ path_found |-> FALSE, all_paths_from_round |-> <<>>, min_path_length |-> None,
           length |-> None, path |-> None ]

NoResult == [ raised |-> FALSE, found |-> FALSE, length |-> -1, path |-> None,
              forbidden |-> EmptyBag ]

NoDriverResult == [ path_found |-> FALSE, length |-> None, path |-> None,
                    all_paths_from_round |-> <<>> ]

InitLocals ==
    /\ attempt = 0
    /\ agg = NoAgg
    /\ obstacle_coords = EmptyBag
    /\ bounding_box = <<0, 0, 0, 0, 0, 0>>
    /\ tentative_target_position = None
    /\ potential_target_types = <<>>
    /\ bfs_result = NoResult
    /\ driver_result = NoDriverResult
    /\ coords_result = {}
    /\ face_result = << FALSE, FALSE >>
    /\ caller_list = occupied_coords
    /\ round_log = <<>>

\* the arguments of the functions that are not called
NoUtilityArgs ==
    /\ preexistent_structure = <<>>
    /\ face_args = << Origin, K("x","x","z"), <<1, 0, 0>>, K("x","x","z") >>

NoSearchArgs ==
    /\ source_node = << Origin, K("x","x","z") >>
    /\ target_node = << Origin, OOO >>
    /\ occupied_coords = EmptyBag
    /\ hadamard_flag = FALSE
    /\ target_node_zx_type = "O"
    /\ distance = 1
    /\ max_distance = 1
    /\ attempts_per_distance = 0
    /\ overwrite_target_node = <<None, None>>
    /\ move_allowed = Candidates(Origin)
    /\ level_2_order = level_2_offsets

InitDriver ==
    /\ entry = "driver"
    /\ pc = "driver_call"
    /\ source_node \in SourceNodes
    /\ target_node_zx_type \in ZXTypes
    /\ distance \in {1, 2}
    /\ max_distance = 1
    /\ attempts_per_distance \in 0..MaxAttempts
    /\ overwrite_target_node \in OverwriteTargets
    /\ occupied_coords \in ObstacleLists(DriverSupports)
    /\ hadamard_flag \in BOOLEAN
    /\ target_node = << Origin, OOO >>
    /\ move_allowed \in (IF overwrite_target_node[1] = None THEN MoveAllowedFamily
                         ELSE {Candidates(Origin)})
    /\ level_2_order \in (IF overwrite_target_node[1] = None THEN Level2Orders
                          ELSE {level_2_offsets})
    /\ NoUtilityArgs

InitBfs ==
    /\ entry = "bfs"
    /\ pc = "bfs_call"
    /\ source_node \in SourceNodes
    /\ target_node \in TargetCoords \X TargetKinds
    /\ occupied_coords \in ObstacleLists(BfsSupports)
    /\ hadamard_flag \in BOOLEAN
    /\ target_node_zx_type = "O"
    /\ distance = 1
    /\ max_distance = 1
    /\ attempts_per_distance = 0
    /\ overwrite_target_node = <<None, None>>
    /\ move_allowed = Candidates(Origin)
    /\ level_2_order = level_2_offsets
    /\ NoUtilityArgs

\* blocks a structure is built from: cubes, pipes and Hadamard pipes on and
\* around a line, with non-adjacent and diagonal neighbours
StructCoords ==
    { Origin, <<1, 0, 0>>, <<-1, 0, 0>>, <<2, 0, 0>>, <<3, 0, 0>>,
      <<0, 1, 0>>, <<1, 1, 0>>, <<0, 0, -1>> }

StructKinds == { K("x","x","z"), K("o","x","z"), K("x","z","o"), KH("x","o","z") }

SeqsUpTo(S, n) == UNION { [1..m -> S] : m \in 0..n }

InitCoords ==
    /\ entry = "coords"
    /\ pc = "coords_call"
    /\ preexistent_structure \in SeqsUpTo(StructCoords \X StructKinds, MaxStructLen)
    /\ face_args = << Origin, K("x","x","z"), <<1, 0, 0>>, K("x","x","z") >>
    /\ NoSearchArgs

\* kinds given to check_face_match: cubes, pipes, Hadamard pipes, mixed case
FaceKinds ==
    SeqToSet(all_cube_kinds) \cup SeqToSet(all_pipe_kinds)
      \cup { K("X","X","Z"), KH("O","x","Z") }

\* displacements along exactly one axis
FaceOffsets ==
    { << d[1] * n, d[2] * n, d[3] * n >> : d \in SeqToSet(spatial_moves), n \in {1, 2} }

InitFace ==
    /\ entry = "face"
    /\ pc = "face_call"
    /\ \E a \in {Origin, <<1, 0, 0>>}, off \in FaceOffsets, ka \in FaceKinds, kb \in FaceKinds :
          face_args = << a, ka, << a[1] + off[1], a[2] + off[2], a[3] + off[3] >>, kb >>
    /\ preexistent_structure = <<>>
    /\ NoSearchArgs

Init == (InitDriver \/ InitBfs \/ InitCoords \/ InitFace) /\ InitLocals

(***************************************************************************)
(* bfs_extended_3d called on its own.                                      *)
(***************************************************************************)
BfsCall ==
    /\ pc = "bfs_call"
    /\ bfs_result' = bfs_extended_3d(source_node, target_node, occupied_coords, hadamard_flag)
    /\ caller_list' = bfs_result'.forbidden
    /\ pc' = "bfs_done"
    /\ UNCHANGED << inputs, utility_results, locals, driver_result, round_log >>

(***************************************************************************)
(* get_coords_occupied_by_blocks called on its own.                        *)
(***************************************************************************)
CoordsCall ==
    /\ pc = "coords_call"
    /\ coords_result' = get_coords_occupied_by_blocks(preexistent_structure)
    /\ pc' = "coords_done"
    /\ UNCHANGED << inputs, caller_list, locals, bfs_result, driver_result, face_result, round_log >>

(***************************************************************************)
(* check_face_match called on its own, in both directions.                 *)
(***************************************************************************)
FaceCall ==
    /\ pc = "face_call"
    /\ face_result' =
          << check_face_match(face_args[1], face_args[2], face_args[3], face_args[4]),
             check_face_match(face_args[3], face_args[4], face_args[1], face_args[2]) >>
    /\ pc' = "face_done"
    /\ UNCHANGED << inputs, caller_list, locals, bfs_result, driver_result, coords_result, round_log >>

(***************************************************************************)
(* run_bfs_for_all_potential_target_nodes.                                 *)
(***************************************************************************)
\* lines 56-74: helper variables, private copy of the obstacles, bounding box
DriverEnter ==
    /\ pc = "driver_call"
    /\ attempt' = 0
    /\ agg' = NoAgg
    /\ obstacle_coords' = RemoveIfPresent(occupied_coords, source_node[1])
    /\ bounding_box' =
          determine_grid_size(source_node[1],
                              IF overwrite_target_node[1] # None
                              THEN overwrite_target_node[1][1] ELSE Origin,
                              obstacle_coords')
    /\ caller_list' = written_through(caller_list, obstacle_coords')
    /\ pc' = "loop"
    /\ UNCHANGED << inputs, utility_results, tentative_target_position, potential_target_types,
                    bfs_result, driver_result, round_log >>

\* the for loop is over (range exhausted) or left by the break of line 80
LoopOver ==
    \/ attempt >= attempts_per_distance
    \/ loop_break(distance, max_distance, agg.path_found)

TargetPositions ==
    generate_tentative_target_position(source_node, bounding_box, obstacle_coords,
                                       overwrite_target_node[1], move_allowed, level_2_order)

\* lines 84-97: no candidate position, 'continue'
RoundSkipped ==
    /\ pc = "loop"
    /\ ~LoopOver
    /\ None \in TargetPositions
    /\ attempt' = attempt + 1
    /\ round_log' = Append(round_log, [position |-> None, results |-> <<>>])
    /\ UNCHANGED << inputs, caller_list, utility_results, pc, agg, obstacle_coords, bounding_box,
                    tentative_target_position, potential_target_types,
                    bfs_result, driver_result >>

\* lines 84-105: a candidate position and the kinds to try at it
RoundStart ==
    /\ pc = "loop"
    /\ ~LoopOver
    /\ \E pos \in TargetPositions \ {None} :
          /\ tentative_target_position' = pos
          /\ round_log' = Append(round_log, [position |-> pos, results |-> <<>>])
    /\ potential_target_types' =
          generate_tentative_target_types(target_node_zx_type, overwrite_target_node[2])
    /\ pc' = "search"
    /\ UNCHANGED << inputs, caller_list, utility_results, attempt, agg, obstacle_coords, bounding_box,
                    bfs_result, driver_result >>

\* the search of lines 113-118 for the next potential target type
Candidate ==
    bfs_extended_3d(source_node, << tentative_target_position[1], Head(potential_target_types) >>,
                    obstacle_coords, hadamard_flag)

Logged(r, kind) == [kind |-> kind, found |-> r.found, length |-> r.length, path |-> r.path]

\* lines 108-127: one search returns and is aggregated
SearchReturns ==
    /\ pc = "search"
    /\ potential_target_types # <<>>
    /\ ~Candidate.raised
    /\ agg' = aggregate(agg, Candidate)
    /\ obstacle_coords' = Candidate.forbidden
    /\ caller_list' = written_through(caller_list, obstacle_coords')
    /\ potential_target_types' = Tail(potential_target_types)
    /\ round_log' = [round_log EXCEPT ![Len(round_log)].results = Append(@, Logged(Candidate, Head(potential_target_types)))]
    /\ UNCHANGED << inputs, utility_results, pc, attempt, bounding_box, tentative_target_position,
                    bfs_result, driver_result >>

\* lines 113-118: the search raises; the driver has no handler, so the
\* exception leaves the driver too
SearchRaises ==
    /\ pc = "search"
    /\ potential_target_types # <<>>
    /\ Candidate.raised
    /\ obstacle_coords' = Candidate.forbidden
    /\ caller_list' = written_through(caller_list, obstacle_coords')
    /\ pc' = "raised"
    /\ UNCHANGED << inputs, utility_results, attempt, agg, bounding_box, tentative_target_position,
                    potential_target_types, bfs_result, driver_result, round_log >>

\* lines 129-131: end of one round; found_path_at_current_distance is never set
RoundEnd ==
    /\ pc = "search"
    /\ potential_target_types = <<>>
    /\ attempt' = attempt + 1
    /\ pc' = "loop"
    /\ UNCHANGED << inputs, caller_list, utility_results, agg, obstacle_coords, bounding_box, tentative_target_position,
                    potential_target_types, bfs_result, driver_result, round_log >>

\* line 134
DriverReturn ==
    /\ pc = "loop"
    /\ LoopOver
    /\ driver_result' = [ path_found |-> agg.path_found, length |-> agg.length,
                          path |-> agg.path,
                          all_paths_from_round |-> agg.all_paths_from_round ]
    /\ pc' = "done"
    /\ UNCHANGED << inputs, caller_list, utility_results, locals, bfs_result, round_log >>

Next ==
    \/ BfsCall
    \/ CoordsCall
    \/ FaceCall
    \/ DriverEnter
    \/ RoundSkipped
    \/ RoundStart
    \/ SearchReturns
    \/ SearchRaises
    \/ RoundEnd
    \/ DriverReturn

Spec == Init /\ [][Next]_vars

(***************************************************************************)
(* Exhaustive reference search: every legal path of at most MaxRefLen      *)
(* moves on the obstacle-free grid, built from the oracle of               *)
(* utils/constraints.py called with the three arguments it declares.       *)
(***************************************************************************)
\* the paths that extend p by one legal move
RefExtensions(p) ==
    LET cur   == p[Len(p)]
        scale == ScaleOf(cur[2])
    IN  UNION { LET next == Step(cur[1], spatial_moves[i], scale)
                    mid  == Step(cur[1], spatial_moves[i], 1)
                IN  IF \/ next \in PathCoords(p)
                       \/ (scale = 2 /\ mid \in PathCoords(p))
                    THEN {}
                    ELSE { Append(p, << next, k >>) :
                             k \in SeqToSet(get_valid_next_kinds(cur[1], Prefix(cur[2], 3), next)) }
              : i \in 1..Len(spatial_moves) }

RECURSIVE RefPaths(_, _)
RefPaths(src, n) ==
    IF n = 0 THEN { << src >> }
    ELSE UNION { RefExtensions(p) : p \in RefPaths(src, n - 1) }

RefReaches(src, tgt, n) ==
    \E p \in RefPaths(src, n) : goal_test(p[Len(p)][1], p[Len(p)][2], tgt[1], tgt[2])

HasLegalPath(src, tgt) == \E n \in 0..MaxRefLen : RefReaches(src, tgt, n)

ShortestLegal(src, tgt) == SetMin({n \in 0..MaxRefLen : RefReaches(src, tgt, n)})

(***************************************************************************)
(* Claims.                                                                 *)
(***************************************************************************)
BfsDone == entry = "bfs" /\ pc = "bfs_done"

DriverDone == entry = "driver" /\ pc = "done"

DriverEnded == entry = "driver" /\ pc \in {"done", "raised"}

Last(q) == q[Len(q)]

\* C1: BFS optimality.  On an obstacle-free grid, whenever the exhaustive
\* search finds a legal path from the source to the target, bfs_extended_3d
\* returns success with the length of the shortest legal path.
C1_BfsOptimality ==
    (BfsDone /\ occupied_coords = EmptyBag /\ HasLegalPath(source_node, target_node))
        => /\ ~bfs_result.raised
           /\ bfs_result.found
           /\ bfs_result.length = ShortestLegal(source_node, target_node)

\* what C2 says of one successful result r of a search from src to the
\* coordinate coord and kind kind
WellFormedSuccess(r, src, coord, kind) ==
    /\ r.path # None
    /\ Len(r.path[1]) >= 1
    /\ r.path[1][1] = src
    /\ Last(r.path[1])[1] = coord
    /\ (kind # OOO => Last(r.path[1])[2] = kind)
    /\ r.length = Len(r.path[1]) - 1

\* C2: whenever bfs_extended_3d returns success, the path is non-empty, starts
\* with the source block, ends at the target coordinate with the target kind
\* (unless that is the wildcard "ooo"), and the length is the number of blocks
\* minus one; for the direct call and for every search the driver runs.
C2_SuccessShape ==
    /\ (BfsDone /\ bfs_result.found)
          => WellFormedSuccess(bfs_result, source_node, target_node[1], target_node[2])
    /\ \A i \in 1..Len(round_log) : \A j \in 1..Len(round_log[i].results) :
          LET r == round_log[i].results[j]
          IN  r.found => WellFormedSuccess(r, source_node, round_log[i].position[1], r.kind)

\* C2 witness: a successful search for a target kind other than the wildcard
C2_Witness ==
    /\ BfsDone
    /\ bfs_result.found
    /\ target_node[2] # OOO
    /\ occupied_coords # EmptyBag

\* the obstacle list without any copy of the two endpoints
WithoutEndpoints(lst, a, b) ==
    LET keep == BagToSet(lst) \ {a, b}
    IN  [c \in keep |-> lst[c]]

Outcome(r) == [raised |-> r.raised, found |-> r.found, length |-> r.length, path |-> r.path]

\* C5: obstacle exclusion idempotence.  The search with the source and/or
\* the target coordinate in the obstacle list, any number of times, gives the
\* same result as the search with those coordinates absent from the list.
C5_EndpointsExcluded ==
    BfsDone =>
        Outcome(bfs_result)
          = Outcome(bfs_extended_3d(source_node, target_node,
                                    WithoutEndpoints(occupied_coords, source_node[1],
                                                     target_node[1]),
                                    hadamard_flag))

\* the successful results of one round of the driver
Successes(round) == {j \in 1..Len(round.results) : round.results[j].found}

\* C6: escalation monotonicity.  When the driver reports success, the
\* reported length is the least length of the successful searches of that
\* round, the reported path is a recorded path of that length, and every
\* successful search appears in the returned list of all paths.
C6_RoundWinner ==
    (DriverDone /\ driver_result.path_found) =>
        LET round == Last(round_log)
            lens  == {round.results[j].length : j \in Successes(round)}
        IN  /\ lens # {}
            /\ driver_result.length = Some(SetMin(lens))
            /\ \E j \in Successes(round) :
                  /\ round.results[j].length = SetMin(lens)
                  /\ round.results[j].path = driver_result.path
            /\ driver_result.path[1] \in SeqToSet(driver_result.all_paths_from_round)
            /\ \A i \in 1..Len(round_log) : \A j \in Successes(round_log[i]) :
                  round_log[i].results[j].path[1]
                      \in SeqToSet(driver_result.all_paths_from_round)

\* C6 witness: a successful round in which other searches of the round failed
C6_Witness ==
    /\ DriverDone
    /\ driver_result.path_found
    /\ Len(Last(round_log).results) >= 2
    /\ \E j \in 1..Len(Last(round_log).results) : ~Last(round_log).results[j].found

\* C7: the driver returns the flag False exactly when the returned list of
\* all paths is empty, and then length and path are both None.
C7_FailureResult ==
    DriverDone =>
        /\ (~driver_result.path_found) <=> (driver_result.all_paths_from_round = <<>>)
        /\ (~driver_result.path_found)
              => (driver_result.length = None /\ driver_result.path = None)

\* C7 witness: the driver returns failure after rounds whose searches all failed
C7_Witness ==
    /\ DriverDone
    /\ ~driver_result.path_found
    /\ round_log # <<>>
    /\ \A i \in 1..Len(round_log) : round_log[i].results # <<>>

\* C8: the driver executes at most attempts_per_distance rounds, starts no
\* round after a round with a successful search, runs nothing when distance
\* exceeds max_distance on entry, and runs no search in a round without a
\* candidate target position.
C8_RoundBound ==
    /\ Len(round_log) <= attempts_per_distance
    /\ (distance > max_distance) => (round_log = <<>>)
    /\ \A i \in 1..(Len(round_log) - 1) : Successes(round_log[i]) = {}
    /\ \A i \in 1..Len(round_log) :
          (round_log[i].position = None) => (round_log[i].results = <<>>)

\* C8 witness: the driver stopped early, after a round with a success and
\* before using all its attempts
C8_Witness ==
    /\ DriverDone
    /\ driver_result.path_found
    /\ Len(round_log) < attempts_per_distance

\* C9: every call of bfs_extended_3d completes by returning (True, length >= 0,
\* path) or (False, -1, None), also when it reaches the expansion step and
\* queries the oracle; it never ends in an exception.
C9_NoException ==
    BfsDone =>
        /\ ~bfs_result.raised
        /\ \/ (bfs_result.found /\ bfs_result.length >= 0 /\ bfs_result.path # None)
           \/ (~bfs_result.found /\ bfs_result.length = -1 /\ bfs_result.path = None)

\* the straight single-pipe scenario
StraightScenario ==
    /\ entry = "driver"
    /\ source_node = << Origin, K("x","x","z") >>
    /\ target_node_zx_type = "O"
    /\ overwrite_target_node = << Some(<<3, 0, 0>>), Some(OOO) >>
    /\ occupied_coords = EmptyBag
    /\ ~hadamard_flag
    /\ distance <= max_distance
    /\ attempts_per_distance >= 1

\* C10: in the straight single-pipe scenario the driver returns success with
\* length 1 and a path of exactly two blocks.
C10_StraightPipe ==
    (StraightScenario /\ DriverEnded) =>
        /\ pc = "done"
        /\ driver_result.path_found
        /\ driver_result.length = Some(1)
        /\ driver_result.path # None
        /\ Len(driver_result.path[1]) = 2

\* all six unit neighbours of the source are obstacles, the source is not,
\* and the target lies beyond them
EnclosedScenario ==
    /\ entry = "bfs"
    /\ Shell \subseteq BagToSet(occupied_coords)
    /\ ~InList(source_node[1], occupied_coords)
    /\ target_node[1] \notin (Shell \cup {source_node[1]})

\* C11 as stated: with all six unit neighbours of the source obstacles and
\* the cells beyond them free, the search succeeds with a path routed around
\* the obstacles.
C11_EnclosedSucceeds ==
    (EnclosedScenario /\ BfsDone) => (~bfs_result.raised /\ bfs_result.found)

\* C11 amended: with all six unit neighbours of the source obstacles and the
\* target beyond them, the search never succeeds: no move leaves the source
\* and no path is returned.
C11_EnclosedNeverSucceeds ==
    (EnclosedScenario /\ BfsDone) => (~bfs_result.found /\ bfs_result.path = None)

\* C11 witness: an enclosed pipe source, whose search returns failure
C11_Witness ==
    /\ EnclosedScenario
    /\ BfsDone
    /\ ~bfs_result.raised
    /\ ~bfs_result.found
    /\ bfs_result.length = -1

\* the immediate success on the source block alone
ImmediateSuccess(found, length, path) ==
    /\ found
    /\ length = 0
    /\ path = Some(<< source_node >>)

\* the driver is given an override target at this coordinate with some kind
\* and runs at least one round
OverrideAt(coord) ==
    /\ entry = "driver"
    /\ overwrite_target_node[1] = Some(coord)
    /\ overwrite_target_node[2] # None
    /\ attempts_per_distance >= 1
    /\ distance <= max_distance

\* the goal test accepts the source's kind for this target kind
KindAccepted(kind) == kind = OOO \/ kind = source_node[2]

\* C12 as stated: whenever the target coordinate equals the source
\* coordinate, whatever the target kind, the search succeeds at once with
\* length 0 and the path of the source block alone.
C12_IdenticalAnyKind ==
    /\ (BfsDone /\ target_node[1] = source_node[1])
          => (~bfs_result.raised
              /\ ImmediateSuccess(bfs_result.found, bfs_result.length, bfs_result.path))
    /\ (OverrideAt(source_node[1]) /\ DriverEnded)
          => (pc = "done"
              /\ ImmediateSuccess(driver_result.path_found, driver_result.length[1],
                                  driver_result.path))

\* C12 amended: whenever the target coordinate equals the source coordinate
\* and the target kind is the wildcard "ooo" or the source's own kind, the
\* search succeeds at once with length 0 and the path of the source block
\* alone; for the direct call and for the driver with such an override target.
C12_IdenticalMatchingKind ==
    /\ (BfsDone /\ target_node[1] = source_node[1] /\ KindAccepted(target_node[2]))
          => (~bfs_result.raised
              /\ ImmediateSuccess(bfs_result.found, bfs_result.length, bfs_result.path))
    /\ (OverrideAt(source_node[1]) /\ KindAccepted(overwrite_target_node[2][1])
          /\ DriverEnded)
          => (pc = "done"
              /\ driver_result.length # None
              /\ ImmediateSuccess(driver_result.path_found, driver_result.length[1],
                                  driver_result.path)
              /\ driver_result.all_paths_from_round = << << source_node >> >>)

\* C12 witness: source and target at one coordinate, the target kind being
\* the source's own kind and not the wildcard
C12_Witness ==
    /\ BfsDone
    /\ target_node = source_node
    /\ bfs_result.found
    /\ bfs_result.length = 0

\* the blocked-intermediate scenario
BlockedScenario ==
    /\ entry = "bfs"
    /\ source_node = << Origin, K("x","x","z") >>
    /\ target_node = << <<3, 0, 0>>, OOO >>
    /\ occupied_coords = SetToBag({<<1, 0, 0>>})

\* C13: in the blocked-intermediate scenario the search returns failure
\* (not found).
C13_BlockedFails ==
    (BlockedScenario /\ BfsDone) =>
        /\ ~bfs_result.raised
        /\ ~bfs_result.found
        /\ bfs_result.length = -1
        /\ bfs_result.path = None

\* every step that can be taken is eventually taken: the interpreter runs a
\* call to its end
FairSpec == Spec /\ WF_vars(Next)

\* the call has returned a result: the search by its goal test, its circuit
\* breaker or its emptied queue, the driver after its last search
Returned ==
    \/ (BfsDone /\ ~bfs_result.raised)
    \/ DriverDone

CoordsDone == entry = "coords" /\ pc = "coords_done"

\* the coordinates of the blocks of the structure
BlockCoords == { preexistent_structure[i][1] : i \in 1..Len(preexistent_structure) }

\* the pipes of the structure that have a previous block
LaterPipes ==
    { i \in 2..Len(preexistent_structure) : Contains(preexistent_structure[i][2], "o") }

Sign(n) == IF n > 0 THEN 1 ELSE IF n < 0 THEN -1 ELSE 0

\* the cell one unit from c toward p, along the first axis on which they differ
TowardPrevious(c, p) ==
    LET ax == DisplacementAxis(c, p)
    IN  [c EXCEPT ![ax] = c[ax] + Sign(p[ax] - c[ax])]

\* c and p are one unit apart on some axis
UnitApart(c, p) == \E i \in 1..3 : Abs(c[i] - p[i]) = 1

\* the cell one unit beyond c, away from p, along the first axis on which
\* they are one unit apart
BeyondPipe(c, p) ==
    LET ax == CHOOSE i \in 1..3 :
                  /\ Abs(c[i] - p[i]) = 1
                  /\ \A j \in 1..(i - 1) : Abs(c[j] - p[j]) # 1
    IN  [c EXCEPT ![ax] = (2 * c[ax]) - p[ax]]

\* C15 as stated: get_coords_occupied_by_blocks returns exactly the
\* coordinates of all blocks plus, for each pipe, one intermediate coordinate
\* toward the pipe's previous neighbour in the sequence.
C15_TowardPrevious ==
    CoordsDone =>
        coords_result =
            BlockCoords \cup
            { TowardPrevious(preexistent_structure[i][1], preexistent_structure[i - 1][1]) :
                i \in { j \in LaterPipes :
                          preexistent_structure[j][1] # preexistent_structure[j - 1][1] } }

\* C15 amended: get_coords_occupied_by_blocks returns exactly the coordinates
\* of all blocks plus, for each pipe that is not the first block and lies one
\* unit from its previous neighbour on some axis, the coordinate one unit
\* beyond the pipe, away from that neighbour, on the first such axis; a cube,
\* a first pipe and a pipe not one unit from its neighbour contribute only
\* their own coordinate.
C15_BeyondPipe ==
    CoordsDone =>
        coords_result =
            BlockCoords \cup
            { BeyondPipe(preexistent_structure[i][1], preexistent_structure[i - 1][1]) :
                i \in { j \in LaterPipes :
                          UnitApart(preexistent_structure[j][1],
                                    preexistent_structure[j - 1][1]) } }

\* C15 witness: a cube followed by a pipe one unit along x; the cell beyond
\* the pipe is returned with the two blocks' coordinates
C15_Witness ==
    /\ CoordsDone
    /\ preexistent_structure = << << Origin, K("x","x","z") >>, << <<1, 0, 0>>, K("o","x","z") >> >>
    /\ coords_result = { Origin, <<1, 0, 0>>, <<2, 0, 0>> }

FaceDone == entry = "face" /\ pc = "face_done"

ReturnedWithoutPath ==
    /\ DriverDone
    /\ ~driver_result.path_found
    /\ Len(round_log) >= 1

\* C22: when the driver has run unsuccessful rounds and returns without a
\* path, its loop has ended because the allowed distance has grown beyond
\* max_distance.
C22_DistanceEscalation ==
    ReturnedWithoutPath => distance > max_distance

\* C24: the driver leaves the list the caller passed as occupied_coords as it
\* was at the call, at every step and for every outcome; the removals it and
\* its searches make are made on its private copy.
C24_CallerListUntouched ==
    (entry = "driver") => (caller_list = occupied_coords)

\* C24 witness: the driver has ended after a search, its private copy has lost
\* the source's and the target's coordinates
C24_Witness ==
    /\ DriverEnded
    /\ Len(round_log) >= 1
    /\ InList(source_node[1], occupied_coords)
    /\ ~InList(source_node[1], obstacle_coords)
    /\ tentative_target_position # None
    /\ InList(tentative_target_position[1], occupied_coords)
    /\ obstacle_coords # occupied_coords
    /\ BagCardinality(obstacle_coords) = BagCardinality(occupied_coords) - 2

====
